---- MODULE Spec2Model ----
(***************************************************************************)
(* A model of rusty-gb: the SM83 register file (cpu/registers.rs), the     *)
(* memory bus and its bank controller (memory.rs, memory/mbc/mbc_none.rs), *)
(* and the instruction dispatch of the CPU (cpu.rs, cpu/ops.rs, cpu/alu.rs)*)
(*                                                                         *)
(* A Rust panic (panic!, unimplemented!, an out-of-bounds index, an        *)
(* arithmetic overflow in a build with overflow checks) ends the program:  *)
(* it is recorded in `fault` and no operation is enabled afterwards.       *)
(***************************************************************************)
EXTENDS Integers, Sequences, FiniteSets

VARIABLES
    registers,                \* Cpu.registers : Registers
    halted,                   \* Cpu.halted
    interrupt_master_enable,  \* Cpu.interrupt_master_enable
    mmu,                      \* Cpu.mmu : Mmu (wram, io_registers, interrupt_enable, mbc)
    fault,                    \* "none", or the panic that ended the program
    last,                     \* the operation performed last, its arguments and result
    nops,                     \* number of operations performed so far
    overflow_checks           \* build profile: TRUE = integer overflow panics, FALSE = wraps

vars == <<registers, halted, interrupt_master_enable, mmu, fault, last, nops, overflow_checks>>

-----------------------------------------------------------------------------
(* Bounds of the model *)

\* operations performed in one behaviour
MaxOps == 2

-----------------------------------------------------------------------------
(* Program constants *)

WRAM_SIZE == 8191
REGS_SIZE == 127
ROM_SIZE_MBC_NONE == 32767

-----------------------------------------------------------------------------
(* Fixed-width integer helpers: u8 / u16 arithmetic and bit operations *)

RECURSIVE BitAnd(_, _)
BitAnd(x, y) ==
    IF x = 0 \/ y = 0 THEN 0
    ELSE ((x % 2) * (y % 2)) + 2 * BitAnd(x \div 2, y \div 2)

RECURSIVE BitOr(_, _)
BitOr(x, y) ==
    IF x = 0 THEN y
    ELSE IF y = 0 THEN x
    ELSE (IF x % 2 = 1 \/ y % 2 = 1 THEN 1 ELSE 0) + 2 * BitOr(x \div 2, y \div 2)

RECURSIVE BitXor(_, _)
BitXor(x, y) ==
    IF x = 0 THEN y
    ELSE IF y = 0 THEN x
    ELSE (((x % 2) + (y % 2)) % 2) + 2 * BitXor(x \div 2, y \div 2)

\* !x on a u8
Not8(x) == 255 - x

\* wrapping_add / wrapping_sub on u8 and u16
WrapAdd8(x, y) == (x + y) % 256
WrapSub8(x, y) == (x - y) % 256
WrapAdd16(x, y) == (x + y) % 65536
WrapSub16(x, y) == (x - y) % 65536

\* `x as u16` of a usize
AsU16(i) == i % 65536

\* `b as i8 as u16`: sign extension of a byte to 16 bits
SignExtend(b) == IF b >= 128 THEN b + 65280 ELSE b

-----------------------------------------------------------------------------
(* utils.rs *)

word_to_bytes(value) ==
    [high |-> (value \div 256) % 256, low |-> BitAnd(value, 255)]

bytes_to_word(high_byte, low_byte) == high_byte * 256 + low_byte

-----------------------------------------------------------------------------
(* cpu/registers.rs : the register file *)

Register8b == {"a", "f", "b", "c", "d", "e", "h", "l"}
Register16b == {"AF", "BC", "DE", "HL", "SP", "PC"}
Flag == {"Z", "N", "H", "C"}

Registers_new ==
    [a |-> 0, f |-> 0, b |-> 0, c |-> 0, d |-> 0, e |-> 0, h |-> 0, l |-> 0,
     sp |-> 0, pc |-> 0]

\* a write of an 8-bit register that masks the low nibble of F
set_r8_masking_f(r, reg, value) ==
    [r EXCEPT ![reg] = IF reg = "f" THEN value - (value % 16) ELSE value]

set_r8(r, reg, value) == [r EXCEPT ![reg] = value]

get_r8(r, reg) == r[reg]

\* a write of a pair that stores the low byte of AF unmasked
set_r16_af_whole(r, reg, value) ==
    LET w == word_to_bytes(value) IN
    CASE reg = "AF" -> [r EXCEPT !.a = w.high, !.f = w.low]
      [] reg = "BC" -> [r EXCEPT !.b = w.high, !.c = w.low]
      [] reg = "DE" -> [r EXCEPT !.d = w.high, !.e = w.low]
      [] reg = "HL" -> [r EXCEPT !.h = w.high, !.l = w.low]
      [] reg = "SP" -> [r EXCEPT !.sp = value]
      [] reg = "PC" -> [r EXCEPT !.pc = value]

set_r16(r, reg, value) ==
    LET w == word_to_bytes(value) IN
    CASE reg = "AF" -> [r EXCEPT !.a = w.high, !.f = BitAnd(w.low, 240)]
      [] reg = "BC" -> [r EXCEPT !.b = w.high, !.c = w.low]
      [] reg = "DE" -> [r EXCEPT !.d = w.high, !.e = w.low]
      [] reg = "HL" -> [r EXCEPT !.h = w.high, !.l = w.low]
      [] reg = "SP" -> [r EXCEPT !.sp = value]
      [] reg = "PC" -> [r EXCEPT !.pc = value]

get_r16(r, reg) ==
    CASE reg = "AF" -> bytes_to_word(r.a, r.f)
      [] reg = "BC" -> bytes_to_word(r.b, r.c)
      [] reg = "DE" -> bytes_to_word(r.d, r.e)
      [] reg = "HL" -> bytes_to_word(r.h, r.l)
      [] reg = "SP" -> r.sp
      [] reg = "PC" -> r.pc

FlagMask(flag) ==
    CASE flag = "Z" -> 128
      [] flag = "N" -> 64
      [] flag = "H" -> 32
      [] flag = "C" -> 16

set_flag(r, flag, value) ==
    IF value
    THEN [r EXCEPT !.f = BitOr(@, FlagMask(flag))]
    ELSE [r EXCEPT !.f = BitAnd(@, Not8(FlagMask(flag)))]

flag_value(r, flag) == BitAnd(r.f, FlagMask(flag)) \div FlagMask(flag) = 1

-----------------------------------------------------------------------------
(* Zero-initialised arrays, kept sparse: only the non-zero cells are stored *)

ZeroArray == [i \in {} |-> 0]

ArrGet(arr, i) == IF i \in DOMAIN arr THEN arr[i] ELSE 0

ArrSet(arr, i, v) ==
    LET dom == IF v = 0 THEN DOMAIN arr \ {i} ELSE DOMAIN arr \cup {i}
    IN  [k \in dom |-> IF k = i THEN v ELSE arr[k]]

-----------------------------------------------------------------------------
(* memory/mbc/mbc_none.rs : MbcNone, results are Ok (ok = TRUE) or           *)
(* Err(MBCError::ROMAccessOutOfRange) (ok = FALSE)                           *)

MbcNone_new == [rom |-> ZeroArray]

MbcNone_read_byte(mbc, address) ==
    IF address >= ROM_SIZE_MBC_NONE
    THEN [ok |-> FALSE, val |-> 0]
    ELSE [ok |-> TRUE, val |-> ArrGet(mbc.rom, address)]

MbcNone_write_byte(mbc, address, value) ==
    IF address >= ROM_SIZE_MBC_NONE
    THEN [ok |-> FALSE, mbc |-> mbc]
    ELSE [ok |-> TRUE, mbc |-> [mbc EXCEPT !.rom = ArrSet(@, address, value)]]

-----------------------------------------------------------------------------
(* memory.rs : Mmu.  Reads return [fault, val], writes return [fault, mmu]   *)

Mmu_new ==
    [wram |-> ZeroArray, io_registers |-> ZeroArray, interrupt_enable |-> FALSE,
     mbc |-> MbcNone_new]

Mmu_read_byte(m, address) ==
    CASE address \in 0..32767 ->
            LET r == MbcNone_read_byte(m.mbc, address) IN
            IF r.ok THEN [fault |-> "none", val |-> r.val]
            ELSE [fault |-> "panic: Cartridge ROM read error", val |-> 0]
      [] address \in 32768..40959 -> [fault |-> "unimplemented: VRAM read", val |-> 0]
      [] address \in 40960..49151 -> [fault |-> "unimplemented: Cartridge RAM read", val |-> 0]
      [] address \in 49152..57343 ->
            IF address - 49152 >= WRAM_SIZE
            THEN [fault |-> "panic: index out of bounds", val |-> 0]
            ELSE [fault |-> "none", val |-> ArrGet(m.wram, address - 49152)]
      [] address \in 57344..65023 -> [fault |-> "unimplemented: Echo RAM read", val |-> 0]
      [] address \in 65024..65183 ->
            [fault |-> "unimplemented: Sprite attribute table read", val |-> 0]
      [] address \in 65184..65279 -> [fault |-> "none", val |-> 0]
      [] address \in 65280..65407 -> [fault |-> "unimplemented: I/O registers read", val |-> 0]
      [] address \in 65408..65534 -> [fault |-> "unimplemented: High RAM read", val |-> 0]
      [] address = 65535 ->
            [fault |-> "none", val |-> IF m.interrupt_enable THEN 1 ELSE 0]

Mmu_read_word(m, address) ==
    LET low == Mmu_read_byte(m, address) IN
    IF low.fault # "none" THEN [fault |-> low.fault, val |-> 0]
    ELSE IF address + 1 > 65535 /\ overflow_checks
    THEN [fault |-> "panic: attempt to add with overflow", val |-> 0]
    ELSE LET high == Mmu_read_byte(m, AsU16(address + 1)) IN
         IF high.fault # "none" THEN [fault |-> high.fault, val |-> 0]
         ELSE [fault |-> "none", val |-> bytes_to_word(high.val, low.val)]

Mmu_write_byte(m, address, value) ==
    CASE address \in 0..32767 ->
            \* the Result of the MBC write is dropped
            [fault |-> "none", mmu |-> [m EXCEPT !.mbc = MbcNone_write_byte(@, address, value).mbc]]
      [] address \in 49152..57343 ->
            IF address - 49152 >= WRAM_SIZE
            THEN [fault |-> "panic: index out of bounds", mmu |-> m]
            ELSE [fault |-> "none", mmu |-> [m EXCEPT !.wram = ArrSet(@, address - 49152, value)]]
      [] OTHER -> [fault |-> "unimplemented: Memory write", mmu |-> m]

Mmu_write_word(m, address, value) ==
    LET w  == word_to_bytes(value)
        w1 == Mmu_write_byte(m, address, w.low)
    IN  IF w1.fault # "none" THEN w1
        ELSE IF address + 1 > 65535 /\ overflow_checks
        THEN [fault |-> "panic: attempt to add with overflow", mmu |-> w1.mmu]
        ELSE Mmu_write_byte(w1.mmu, AsU16(address + 1), w.high)

\* A program image handed to load_rom: `len` bytes, of which the leading
\* Len(head) are `head` and the rest are zero.
DataAt(data, i) == IF i < Len(data.head) THEN data.head[i + 1] ELSE 0

\* The first index of an image of n bytes that the MBC rejects (n if none):
\* where the loop of load_rom panics.
LoadStop(n) ==
    LET Rejected(i) == ~MbcNone_write_byte(MbcNone_new, AsU16(i), 0).ok
    IN  IF \E i \in 0..(n - 1) : Rejected(i)
        THEN CHOOSE i \in 0..(n - 1) : Rejected(i) /\ \A j \in 0..(i - 1) : ~Rejected(j)
        ELSE n

\* The lengths of the images the model loads, and where each load stops.
ImageLens == {0, 1, 2, 3, 32766, 32767, 32768, 32769, 65537}

LoadStopAt == [n \in ImageLens |-> LoadStop(n)]

\* for (i, instr) in data.iter().enumerate(): mbc.write_byte(i as u16, *instr),
\* panicking at the first Err.  Iterations 0..stop-1 are performed; the cell at
\* address a ends with the byte of the last performed iteration i with
\* (i as u16) = a.
Mmu_load_rom(m, data) ==
    LET stop    == LoadStopAt[data.len]
        Iter(a) == {i \in {a + 65536 * k : k \in 0..(stop \div 65536)} : i < stop}
        Last(a) == CHOOSE i \in Iter(a) : \A j \in Iter(a) : j <= i
        Cell(a) == IF Iter(a) = {} THEN ArrGet(m.mbc.rom, a) ELSE DataAt(data, Last(a))
        Touched == DOMAIN m.mbc.rom \cup {AsU16(i) : i \in 0..(Len(data.head) - 1)}
        rom     == [a \in {x \in Touched : Cell(x) # 0} |-> Cell(a)]
    IN  [fault |-> IF stop < data.len
                   THEN "panic: ROM loading error! Illegal write to ROM address"
                   ELSE "none",
         mmu   |-> [m EXCEPT !.mbc.rom = rom]]

-----------------------------------------------------------------------------
(* cpu/alu.rs : the ALU.  Each operation takes the register file r and       *)
(* returns the register file with the flags it set, and its value.           *)

\* an addition that never takes the carry flag in
alu_add_bytes_no_carry_in(r, x, y, use_carry) ==
    LET result == WrapAdd16(x, y)
        r1     == set_flag(r, "Z", BitAnd(result, 255) = 0)
        r2     == set_flag(r1, "N", FALSE)
        r3     == set_flag(r2, "H", BitAnd(BitXor(BitXor(x, y), result), 16) # 0)
        r4     == set_flag(r3, "C", BitAnd(result, 256) # 0)
    IN  [r |-> r4, val |-> result % 256]

alu_add_bytes(r, x, y, use_carry) ==
    LET c      == IF use_carry /\ flag_value(r, "C") THEN 1 ELSE 0
        y16    == WrapAdd16(y, c)
        result == WrapAdd16(x, y16)
        r1     == set_flag(r, "Z", BitAnd(result, 255) = 0)
        r2     == set_flag(r1, "N", FALSE)
        r3     == set_flag(r2, "H", BitAnd(BitXor(BitXor(x, y16), result), 16) # 0)
        r4     == set_flag(r3, "C", BitAnd(result, 256) # 0)
    IN  [r |-> r4, val |-> result % 256]

\* a subtraction whose C flag compares x with y alone
alu_sub_bytes_borrow_of_y(r, x, y, use_carry) ==
    LET c      == IF use_carry /\ flag_value(r, "C") THEN 1 ELSE 0
        y16    == WrapAdd16(y, c)
        result == WrapSub16(x, y16)
        r1     == set_flag(r, "Z", BitAnd(result, 255) = 0)
        r2     == set_flag(r1, "N", TRUE)
        r3     == set_flag(r2, "H", BitAnd(y16, 15) > BitAnd(x, 15))
        r4     == set_flag(r3, "C", x < y)
    IN  [r |-> r4, val |-> result % 256]

\* a subtraction that takes the carry flag in whatever use_carry says
alu_sub_bytes_always_carry(r, x, y, use_carry) ==
    LET c      == IF flag_value(r, "C") THEN 1 ELSE 0
        y16    == WrapAdd16(y, c)
        result == WrapSub16(x, y16)
        r1     == set_flag(r, "Z", BitAnd(result, 255) = 0)
        r2     == set_flag(r1, "N", TRUE)
        r3     == set_flag(r2, "H", BitAnd(y16, 15) > BitAnd(x, 15))
        r4     == set_flag(r3, "C", BitAnd(result, 256) # 0)
    IN  [r |-> r4, val |-> result % 256]

alu_sub_bytes(r, x, y, use_carry) ==
    LET c      == IF use_carry /\ flag_value(r, "C") THEN 1 ELSE 0
        y16    == WrapAdd16(y, c)
        result == WrapSub16(x, y16)
        r1     == set_flag(r, "Z", BitAnd(result, 255) = 0)
        r2     == set_flag(r1, "N", TRUE)
        r3     == set_flag(r2, "H", BitAnd(y16, 15) > BitAnd(x, 15))
        r4     == set_flag(r3, "C", BitAnd(result, 256) # 0)
    IN  [r |-> r4, val |-> result % 256]

\* a word addition that leaves Z as the high-byte addition set it
alu_add_words_z_of_high(r, x, y) ==
    LET xb   == word_to_bytes(x)
        yb   == word_to_bytes(y)
        low  == alu_add_bytes(r, xb.low, yb.low, FALSE)
        high == alu_add_bytes(low.r, xb.high, yb.high, TRUE)
    IN  [r |-> high.r, val |-> bytes_to_word(high.val, low.val)]

\* a word addition whose low-byte addition takes the carry flag in
alu_add_words_carry_into_low(r, x, y) ==
    LET xb   == word_to_bytes(x)
        yb   == word_to_bytes(y)
        z    == flag_value(r, "Z")
        low  == alu_add_bytes(r, xb.low, yb.low, TRUE)
        high == alu_add_bytes(low.r, xb.high, yb.high, TRUE)
    IN  [r |-> set_flag(high.r, "Z", z), val |-> bytes_to_word(high.val, low.val)]

alu_add_words(r, x, y) ==
    LET xb   == word_to_bytes(x)
        yb   == word_to_bytes(y)
        z    == flag_value(r, "Z")
        low  == alu_add_bytes(r, xb.low, yb.low, FALSE)
        high == alu_add_bytes(low.r, xb.high, yb.high, TRUE)
    IN  [r |-> set_flag(high.r, "Z", z), val |-> bytes_to_word(high.val, low.val)]

alu_inc_byte(r, x) ==
    LET result == WrapAdd8(x, 1)
        r1     == set_flag(r, "Z", result = 0)
        r2     == set_flag(r1, "N", FALSE)
        r3     == set_flag(r2, "H", BitAnd(x, 15) + 1 > 15)
    IN  [r |-> r3, val |-> result]

\* a decrement whose H flag uses the test of the increment
alu_dec_byte_h_of_inc(r, x) ==
    LET result == WrapSub8(x, 1)
        r1     == set_flag(r, "Z", result = 0)
        r2     == set_flag(r1, "N", TRUE)
        r3     == set_flag(r2, "H", BitAnd(x, 15) = 15)
    IN  [r |-> r3, val |-> result]

alu_dec_byte(r, x) ==
    LET result == WrapSub8(x, 1)
        r1     == set_flag(r, "Z", result = 0)
        r2     == set_flag(r1, "N", TRUE)
        r3     == set_flag(r2, "H", BitAnd(x, 15) = 0)
    IN  [r |-> r3, val |-> result]

\* the flags of AND / XOR / OR, then the store of the result into A
LogicFlags(r, result, h) ==
    LET r1 == set_flag(r, "Z", result = 0)
        r2 == set_flag(r1, "N", FALSE)
        r3 == set_flag(r2, "H", h)
        r4 == set_flag(r3, "C", FALSE)
    IN  set_r8(r4, "a", result)

alu_and_a(r, y) == LogicFlags(r, BitAnd(get_r8(r, "a"), y), TRUE)

\* an exclusive or that sets H as the AND does
alu_xor_a_h_set(r, y) == LogicFlags(r, BitXor(get_r8(r, "a"), y), TRUE)

alu_xor_a(r, y) == LogicFlags(r, BitXor(get_r8(r, "a"), y), FALSE)

alu_or_a(r, y) == LogicFlags(r, BitOr(get_r8(r, "a"), y), FALSE)

\* a compare that writes the difference back into A, as SUB does
alu_cp_a_writes_back(r, y) ==
    LET x == alu_sub_bytes(r, get_r8(r, "a"), y, FALSE) IN set_r8(x.r, "a", x.val)

alu_cp_a(r, y) == alu_sub_bytes(r, get_r8(r, "a"), y, FALSE).r

bit_op_rlc(r, x) ==
    LET carry_out == x \div 128
        carry_in  == IF flag_value(r, "C") THEN 1 ELSE 0
        value     == BitOr((x * 2) % 256, carry_in)
        r1        == set_flag(r, "Z", value = 0)
        r2        == set_flag(r1, "N", FALSE)
        r3        == set_flag(r2, "H", FALSE)
        r4        == set_flag(r3, "C", carry_out # 0)
    IN  [r |-> r4, val |-> value]

bit_op_rrc(r, x) ==
    LET carry_out == (x * 128) % 256
        carry_in  == IF flag_value(r, "C") THEN 1 ELSE 0
        value     == BitOr(x \div 2, carry_in)
        r1        == set_flag(r, "Z", value = 0)
        r2        == set_flag(r1, "N", FALSE)
        r3        == set_flag(r2, "H", FALSE)
        r4        == set_flag(r3, "C", carry_out # 0)
    IN  [r |-> r4, val |-> value]

-----------------------------------------------------------------------------
(* cpu.rs : the Cpu.  A value c is the Cpu struct together with `fault`.     *)
(* Nothing runs after a panic: every step below leaves a Cpu that has        *)
(* panicked as it is.                                                        *)

\* a Cpu constructed with the interrupt master enable already set
Cpu_new_ime_set ==
    [registers |-> Registers_new, halted |-> FALSE, interrupt_master_enable |-> TRUE,
     mmu |-> Mmu_new, fault |-> "none"]

Cpu_new ==
    [registers |-> Registers_new, halted |-> FALSE, interrupt_master_enable |-> FALSE,
     mmu |-> Mmu_new, fault |-> "none"]

Panic(c, f) == IF c.fault = "none" THEN [c EXCEPT !.fault = f] ELSE c

unimpl_instr(c) == Panic(c, "unimplemented: Unimplemented or invalid instruction!")

\* The value an instruction handler returns: its cost, or nothing (-1) when it
\* panicked.
Done(c, cost) == [c |-> c, ret |-> IF c.fault = "none" THEN cost ELSE -1]

\* self.registers = r
WithRegs(c, r) == IF c.fault = "none" THEN [c EXCEPT !.registers = r] ELSE c

\* self.registers.set_r8(reg, value) / self.registers.set_r16(reg, value)
SetR8Val(c, reg, value) == WithRegs(c, set_r8(c.registers, reg, value))
SetR16Val(c, reg, value) == WithRegs(c, set_r16(c.registers, reg, value))

\* the result x = [r, val] of an ALU operation is stored into a register
StoreAlu8(c, reg, x) == WithRegs(c, set_r8(x.r, reg, x.val))
StoreAlu16(c, reg, x) == WithRegs(c, set_r16(x.r, reg, x.val))

\* the outcome w = [fault, mmu] of a bus write becomes the bus of the Cpu
Written(c, w) == IF c.fault = "none" THEN [c EXCEPT !.mmu = w.mmu, !.fault = w.fault] ELSE c

\* self.mmu.write_byte(address, value) / self.mmu.write_word(address, value)
MemWrite(c, address, value) == Written(c, Mmu_write_byte(c.mmu, address, value))
MemWriteWord(c, address, value) == Written(c, Mmu_write_word(c.mmu, address, value))

\* the outcome rd = [fault, val] of a bus read is stored into a register
ReadTo8(c, reg, rd) ==
    IF rd.fault # "none" THEN Panic(c, rd.fault) ELSE SetR8Val(c, reg, rd.val)

\* a register load in the wrong direction
ld_regs_8b_reversed(c, reg_to, reg_from) == SetR8Val(c, reg_from, get_r8(c.registers, reg_to))

ld_regs_8b(c, reg_to, reg_from) == SetR8Val(c, reg_to, get_r8(c.registers, reg_from))

\* fetch_byte / fetch_word: read the byte (word) at PC through the bus and
\* advance PC by 1 (2).  Result: [c, val].
Fetched(c, rd, n) ==
    [c   |-> IF rd.fault # "none" THEN Panic(c, rd.fault)
             ELSE WithRegs(c, [c.registers EXCEPT !.pc = WrapAdd16(@, n)]),
     val |-> rd.val]

fetch_byte(c) == Fetched(c, Mmu_read_byte(c.mmu, c.registers.pc), 1)

fetch_word(c) == Fetched(c, Mmu_read_word(c.mmu, c.registers.pc), 2)

-----------------------------------------------------------------------------
(* cpu/ops.rs : execute_instr.  Every handler takes c and returns            *)
(* [c |-> the Cpu afterwards, ret |-> the cost returned, -1 after a panic].  *)
(* A handler that fetches an operand is written in two parts: the fetch, and *)
(* what it does with the outcome f = [c, val] of the fetch.                  *)

\* operand order of the opcode tables: B C D E H L (HL) A, and BC DE HL SP
R8Of(i) == <<"b", "c", "d", "e", "h", "l", "(hl)", "a">>[i + 1]
R16Of(i) == <<"BC", "DE", "HL", "SP">>[i + 1]

\* 0x01 0x11 0x21 0x31 : LD r16, d16
\* a load of the immediate word with its two bytes exchanged
Ld_r16_d16_swapped(f, rr) ==
    Done(SetR16Val(f.c, rr, bytes_to_word(f.val % 256, f.val \div 256)), 12)

Ld_r16_d16(f, rr) == Done(SetR16Val(f.c, rr, f.val), 12)
Op_ld_r16_d16(c, rr) == Ld_r16_d16(fetch_word(c), rr)

\* 0x02 0x12 : LD (r16), A
Op_ld_mem_a(c, rr) ==
    Done(MemWrite(c, get_r16(c.registers, rr), get_r8(c.registers, "a")), 8)

\* 0x03 0x13 0x23 0x33 / 0x0B 0x1B 0x2B 0x3B : INC r16 / DEC r16 (delta 1 / -1)
StepR16(c, rr, delta) == SetR16Val(c, rr, (get_r16(c.registers, rr) + delta) % 65536)
Op_step_r16(c, rr, delta) == Done(StepR16(c, rr, delta), 8)

\* 0x04 0x0C 0x14 0x1C 0x24 0x2C 0x3C : INC r8
Op_inc_r8(c, reg) ==
    Done(StoreAlu8(c, reg, alu_inc_byte(c.registers, get_r8(c.registers, reg))), 4)

\* 0x05 0x0D 0x15 0x1D 0x25 0x2D 0x3D : DEC r8
Op_dec_r8(c, reg) ==
    Done(StoreAlu8(c, reg, alu_dec_byte(c.registers, get_r8(c.registers, reg))), 4)

\* 0x06 0x0E 0x16 0x1E 0x26 0x2E 0x3E : LD r8, d8
Ld_r8_d8(f, reg) == Done(SetR8Val(f.c, reg, f.val), 8)
Op_ld_r8_d8(c, reg) == Ld_r8_d8(fetch_byte(c), reg)

\* 0x07 : RLCA
Rlca(x) == set_flag(set_r8(x.r, "a", x.val), "Z", FALSE)
Op_rlca(c) ==
    Done(WithRegs(c, Rlca(bit_op_rlc(c.registers, get_r8(c.registers, "a")))), 4)

\* 0x08 : LD (a16), SP
Ld_a16_sp(f) == Done(MemWriteWord(f.c, f.val, f.c.registers.sp), 20)
Op_ld_a16_sp(c) == Ld_a16_sp(fetch_word(c))

\* 0x09 0x19 0x29 0x39 : ADD HL, r16
Op_add_hl(c, rr) ==
    Done(StoreAlu16(c, "HL", alu_add_words(c.registers, get_r16(c.registers, "HL"),
                                           get_r16(c.registers, rr))), 8)

\* 0x0A 0x1A : LD A, (r16)
Op_ld_a_mem(c, rr) ==
    Done(ReadTo8(c, "a", Mmu_read_byte(c.mmu, get_r16(c.registers, rr))), 8)

\* 0x22 0x32 : LD (HL+), A / LD (HL-), A : the write, then HL moves by delta
Op_ld_hli_a(c, delta) ==
    Done(StepR16(MemWrite(c, get_r16(c.registers, "HL"), get_r8(c.registers, "a")),
                 "HL", delta), 8)

\* 0x2A 0x3A : LD A, (HL+) / LD A, (HL-) : HL moves by delta, then the read
\* at the address HL held
Op_ld_a_hli(c, delta) ==
    Done(ReadTo8(StepR16(c, "HL", delta), "a",
                 Mmu_read_byte(c.mmu, get_r16(c.registers, "HL"))), 8)

\* 0x2F : CPL
Op_cpl(c) ==
    Done(WithRegs(c, set_flag(set_flag(set_r8(c.registers, "a",
                                              Not8(get_r8(c.registers, "a"))),
                                       "N", TRUE), "H", TRUE)), 4)

\* 0x34 0x35 : INC (HL) / DEC (HL)
StoreAluMem(c, address, x) == MemWrite(WithRegs(c, x.r), address, x.val)

IncDecMem(c, address, rd, inc) ==
    IF rd.fault # "none" THEN Panic(c, rd.fault)
    ELSE StoreAluMem(c, address, IF inc THEN alu_inc_byte(c.registers, rd.val)
                                 ELSE alu_dec_byte(c.registers, rd.val))

Op_incdec_mem(c, inc) ==
    Done(IncDecMem(c, get_r16(c.registers, "HL"),
                   Mmu_read_byte(c.mmu, get_r16(c.registers, "HL")), inc), 12)

\* 0x36 : LD (HL), d8
Ld_mem_d8(f) == Done(MemWrite(f.c, get_r16(f.c.registers, "HL"), f.val), 12)
Op_ld_mem_d8(c) == Ld_mem_d8(fetch_byte(c))

\* 0x37 : SCF
Op_scf(c) ==
    Done(WithRegs(c, set_flag(set_flag(set_flag(c.registers, "N", FALSE),
                                       "H", FALSE), "C", TRUE)), 4)

\* 0x38 : sets the carry flag by a write of F through set_r8
Op_38(c) ==
    Done(SetR8Val(c, "f", BitAnd(BitOr(get_r8(c.registers, "f"), 16), 159)), 4)

\* 0x3F : CCF
Op_ccf(c) ==
    Done(WithRegs(c, set_flag(set_flag(set_flag(c.registers, "N", FALSE),
                                       "H", FALSE),
                              "C", ~flag_value(c.registers, "C"))), 4)

Exec_00_3F(c, instruction) ==
    CASE instruction = 0 -> Done(c, 4)
      [] instruction % 16 = 1 -> Op_ld_r16_d16(c, R16Of(instruction \div 16))
      [] instruction \in {2, 18} -> Op_ld_mem_a(c, R16Of(instruction \div 16))
      [] instruction % 16 = 3 -> Op_step_r16(c, R16Of(instruction \div 16), 1)
      [] instruction % 16 = 11 -> Op_step_r16(c, R16Of(instruction \div 16), -1)
      [] instruction % 8 = 4 /\ instruction # 52 -> Op_inc_r8(c, R8Of(instruction \div 8))
      [] instruction % 8 = 5 /\ instruction # 53 -> Op_dec_r8(c, R8Of(instruction \div 8))
      [] instruction % 8 = 6 /\ instruction # 54 -> Op_ld_r8_d8(c, R8Of(instruction \div 8))
      [] instruction = 7 -> Op_rlca(c)
      [] instruction = 8 -> Op_ld_a16_sp(c)
      [] instruction % 16 = 9 -> Op_add_hl(c, R16Of(instruction \div 16))
      [] instruction \in {10, 26} -> Op_ld_a_mem(c, R16Of(instruction \div 16))
      [] instruction = 15 -> Done(unimpl_instr(c), 4)
      [] instruction = 16 -> Done(unimpl_instr(c), 4)
      [] instruction = 34 -> Op_ld_hli_a(c, 1)
      [] instruction = 50 -> Op_ld_hli_a(c, -1)
      [] instruction = 39 -> Done(unimpl_instr(c), 0)
      [] instruction = 42 -> Op_ld_a_hli(c, 1)
      [] instruction = 58 -> Op_ld_a_hli(c, -1)
      [] instruction = 47 -> Op_cpl(c)
      [] instruction = 52 -> Op_incdec_mem(c, TRUE)
      [] instruction = 53 -> Op_incdec_mem(c, FALSE)
      [] instruction = 54 -> Op_ld_mem_d8(c)
      [] instruction = 55 -> Op_scf(c)
      [] instruction = 56 -> Op_38(c)
      [] instruction = 63 -> Op_ccf(c)
      [] OTHER -> Done(unimpl_instr(c), 0)

\* 0x40..0x7F : LD r8, r8 / LD r8, (HL) / LD (HL), r8 / HALT
Ld_r8_r8(c, to, from) ==
    CASE to = from -> Done(c, 4)
      [] to # from /\ from = "(hl)" ->
            Done(ReadTo8(c, to, Mmu_read_byte(c.mmu, get_r16(c.registers, "HL"))), 8)
      [] to # from /\ to = "(hl)" ->
            Done(MemWrite(c, get_r16(c.registers, "HL"), get_r8(c.registers, from)), 8)
      [] OTHER -> Done(ld_regs_8b(c, to, from), 4)

Exec_40_7F(c, instruction) ==
    IF instruction = 118 THEN Done(unimpl_instr(c), 4)
    ELSE Ld_r8_r8(c, R8Of((instruction - 64) \div 8), R8Of(instruction % 8))

\* 0x80..0xBF : ADD ADC SUB SBC AND XOR OR CP  A, r8 / A, (HL).  AluA applies
\* the operation of class k (0..7) with operand y to the register file.
StoreA(x) == set_r8(x.r, "a", x.val)

AluA(r, k, y) ==
    CASE k = 0 -> StoreA(alu_add_bytes(r, get_r8(r, "a"), y, FALSE))
      [] k = 1 -> StoreA(alu_add_bytes(r, get_r8(r, "a"), y, TRUE))
      [] k = 2 -> StoreA(alu_sub_bytes(r, get_r8(r, "a"), y, FALSE))
      [] k = 3 -> StoreA(alu_sub_bytes(r, get_r8(r, "a"), y, TRUE))
      [] k = 4 -> alu_and_a(r, y)
      [] k = 5 -> alu_xor_a(r, y)
      [] k = 6 -> alu_or_a(r, y)
      [] k = 7 -> alu_cp_a(r, y)

AluAMem(c, k, rd) ==
    IF rd.fault # "none" THEN Panic(c, rd.fault)
    ELSE WithRegs(c, AluA(c.registers, k, rd.val))

Alu_a_r8(c, k, from) ==
    IF from = "(hl)"
    THEN Done(AluAMem(c, k, Mmu_read_byte(c.mmu, get_r16(c.registers, "HL"))), 8)
    ELSE Done(WithRegs(c, AluA(c.registers, k, get_r8(c.registers, from))), 4)

Exec_80_BF(c, instruction) ==
    Alu_a_r8(c, (instruction - 128) \div 8, R8Of(instruction % 8))

\* 0xC1 0xD1 0xE1 0xF1 : POP r16
Pop(c, rr, rd) ==
    IF rd.fault # "none" THEN Panic(c, rd.fault)
    ELSE WithRegs(c, set_r16([c.registers EXCEPT !.sp = WrapAdd16(@, 2)], rr, rd.val))

Op_pop(c, rr) == Done(Pop(c, rr, Mmu_read_word(c.mmu, c.registers.sp)), 12)

\* 0xC5 0xD5 0xE5 : PUSH r16
Push(c, value) ==
    MemWriteWord([c EXCEPT !.registers.sp = WrapSub16(@, 2)],
                 WrapSub16(c.registers.sp, 2), value)

Op_push(c, rr) == Done(Push(c, get_r16(c.registers, rr)), 16)

\* 0xF5 : PUSH AF
Op_push_af(c) == Done(Push(c, BitOr(get_r16(c.registers, "AF"), 65520)), 16)

\* 0xC6 0xCE 0xD6 0xDE : ADD / ADC / SUB / SBC A, d8 : the flags are set, the
\* result of the ALU is dropped
ArithFlags(r, k, y) ==
    CASE k = 0 -> alu_add_bytes(r, get_r8(r, "a"), y, FALSE).r
      [] k = 1 -> alu_add_bytes(r, get_r8(r, "a"), y, TRUE).r
      [] k = 2 -> alu_sub_bytes(r, get_r8(r, "a"), y, FALSE).r
      [] k = 3 -> alu_sub_bytes(r, get_r8(r, "a"), y, TRUE).r

Arith_d8(f, k) == Done(WithRegs(f.c, ArithFlags(f.c.registers, k, f.val)), 8)
Op_arith_d8(c, k) == Arith_d8(fetch_byte(c), k)

\* 0xE6 0xEE 0xF6 0xFE : AND / XOR / OR / CP A, d8
Logic_d8(f, k) == Done(WithRegs(f.c, AluA(f.c.registers, k, f.val)), 8)
Op_logic_d8(c, k) == Logic_d8(fetch_byte(c), k)

\* 0xCB : the prefixed table, execute_prefixed_instr
execute_prefixed_instr(c, instruction) == Done(unimpl_instr(c), 0)

Prefixed(f) == execute_prefixed_instr(f.c, f.val)
Op_prefix(c) == Prefixed(fetch_byte(c))

\* 0xE0 : LDH (a8), A        0xE2 : LD (C), A
Ldh_a8_a(f) == Done(MemWrite(f.c, f.val + 65280, get_r8(f.c.registers, "a")), 12)
Op_ldh_a8_a(c) == Ldh_a8_a(fetch_byte(c))

Op_ldh_c_a(c) ==
    Done(MemWrite(c, get_r8(c.registers, "c") + 65280, get_r8(c.registers, "a")), 12)

\* 0xF0 : LDH A, (a8)        0xF2 : LD A, (C)
Ldh_a_a8(f) == Done(ReadTo8(f.c, "a", Mmu_read_byte(f.c.mmu, f.val + 65280)), 12)
Op_ldh_a_a8(c) == Ldh_a_a8(fetch_byte(c))

Op_ldh_a_c(c) ==
    Done(ReadTo8(c, "a", Mmu_read_byte(c.mmu, get_r8(c.registers, "c") + 65280)), 12)

\* 0xE8 : ADD SP, r8
StoreSp(x) == set_flag([x.r EXCEPT !.sp = x.val], "Z", FALSE)

Add_sp_r8(f) ==
    Done(WithRegs(f.c, StoreSp(alu_add_words(f.c.registers, f.c.registers.sp,
                                             SignExtend(f.val)))), 16)

Op_add_sp_r8(c) == Add_sp_r8(fetch_byte(c))

\* 0xF8 : LD HL, SP + r8
StoreHl(x) == set_flag(set_r16(x.r, "HL", x.val), "Z", FALSE)

Ld_hl_sp_r8(f) ==
    Done(WithRegs(f.c, StoreHl(alu_add_words(f.c.registers, f.c.registers.sp,
                                             SignExtend(f.val)))), 12)

Op_ld_hl_sp_r8(c) == Ld_hl_sp_r8(fetch_byte(c))

\* 0xEA : LD (a16), A        0xFA : LD A, (a16)
Ld_a16_a(f) == Done(MemWrite(f.c, f.val, get_r8(f.c.registers, "a")), 16)
Op_ld_a16_a(c) == Ld_a16_a(fetch_word(c))

Ld_a_a16(f) == Done(ReadTo8(f.c, "a", Mmu_read_byte(f.c.mmu, f.val)), 16)
Op_ld_a_a16(c) == Ld_a_a16(fetch_word(c))

Exec_C0_FF(c, instruction) ==
    CASE instruction = 193 -> Op_pop(c, "BC")
      [] instruction = 209 -> Op_pop(c, "DE")
      [] instruction = 225 -> Op_pop(c, "HL")
      [] instruction = 241 -> Op_pop(c, "AF")
      [] instruction = 197 -> Op_push(c, "BC")
      [] instruction = 213 -> Op_push(c, "DE")
      [] instruction = 229 -> Op_push(c, "HL")
      [] instruction = 245 -> Op_push_af(c)
      [] instruction = 198 -> Op_arith_d8(c, 0)
      [] instruction = 206 -> Op_arith_d8(c, 1)
      [] instruction = 214 -> Op_arith_d8(c, 2)
      [] instruction = 222 -> Op_arith_d8(c, 3)
      [] instruction = 230 -> Op_logic_d8(c, 4)
      [] instruction = 238 -> Op_logic_d8(c, 5)
      [] instruction = 246 -> Op_logic_d8(c, 6)
      [] instruction = 254 -> Op_logic_d8(c, 7)
      [] instruction = 203 -> Op_prefix(c)
      [] instruction = 224 -> Op_ldh_a8_a(c)
      [] instruction = 226 -> Op_ldh_c_a(c)
      [] instruction = 240 -> Op_ldh_a_a8(c)
      [] instruction = 242 -> Op_ldh_a_c(c)
      [] instruction = 232 -> Op_add_sp_r8(c)
      [] instruction = 248 -> Op_ld_hl_sp_r8(c)
      [] instruction = 234 -> Op_ld_a16_a(c)
      [] instruction = 250 -> Op_ld_a_a16(c)
      [] instruction = 239 -> Done(c, 16)
      [] instruction = 243 -> Done([c EXCEPT !.interrupt_master_enable = FALSE], 4)
      [] instruction = 251 -> Done([c EXCEPT !.interrupt_master_enable = TRUE], 4)
      [] instruction = 249 -> Done(SetR16Val(c, "SP", get_r16(c.registers, "HL")), 8)
      [] instruction = 255 -> Done(unimpl_instr(c), 16)
      [] OTHER -> Done(unimpl_instr(c), 0)

execute_instr(c, instruction) ==
    CASE instruction \in 0..63 -> Exec_00_3F(c, instruction)
      [] instruction \in 64..127 -> Exec_40_7F(c, instruction)
      [] instruction \in 128..191 -> Exec_80_BF(c, instruction)
      [] instruction \in 192..255 -> Exec_C0_FF(c, instruction)

\* The arms of execute_instr that carry no handler.
\* the arms that call unimpl_instr: 0x0F 0x10 0x27 0x76 0xFF
UnimplArms == {15, 16, 39, 118, 255}

\* the opcodes with no arm of their own, which the default arm `_` takes
DefaultArm ==
    {23, 24, 31, 32, 40, 48,
     192, 194, 195, 196, 199, 200, 201, 202, 204, 205, 207,
     208, 210, 211, 212, 215, 216, 217, 218, 219, 220, 221, 223,
     227, 228, 231, 233, 235, 236, 237, 244, 247, 252, 253}

\* 0xCB: the arm of the prefixed table, none of whose opcodes has a handler
PrefixArm == {203}

\* 0xEF (RST 28h): the arm holds a comment and the cost, and no handler
EmptyArms == {239}

NoHandlerOpcodes == UnimplArms \cup DefaultArm \cup PrefixArm \cup EmptyArms

UnimplementedFault == unimpl_instr(Cpu_new).fault

\* cpu.rs : fetch_and_execute (step): the opcode at PC, PC += 1, the handler
Decode(c, rd) ==
    IF rd.fault # "none" THEN Done(Panic(c, rd.fault), 0)
    ELSE IF c.registers.pc + 1 > 65535 /\ overflow_checks
    THEN Done(Panic(c, "panic: attempt to add with overflow"), 0)
    ELSE execute_instr([c EXCEPT !.registers.pc = AsU16(@ + 1)], rd.val)

fetch_and_execute(c) == Decode(c, Mmu_read_byte(c.mmu, c.registers.pc))

-----------------------------------------------------------------------------
(* The inputs the operations are called with *)

\* bytes: 0x00, 0x01, 0x0F, 0xF0, 0xFF
ByteVals == {0, 1, 15, 240, 255}

\* words: 0x0000, 0xBEEF, 0xC000, 0xDFFE, 0xFEA0, 0xFFFF
WordVals == {0, 48879, 49152, 57342, 65184, 65535}

\* bus addresses: the first and last address of every region of the memory map
\* 0x0000 0x0001 0x7FFE 0x7FFF | 0x8000 0x9FFF | 0xA000 0xBFFF |
\* 0xC000 0xC001 0xDDFF 0xDFFE 0xDFFF | 0xE000 0xFDFF | 0xFE00 0xFE9F |
\* 0xFEA0 0xFEFF | 0xFF00 0xFF7F | 0xFF80 0xFFFE | 0xFFFF
BusAddrs ==
    {0, 1, 32766, 32767, 32768, 40959, 40960, 49151,
     49152, 49153, 56831, 57342, 57343, 57344, 65023, 65024, 65183,
     65184, 65279, 65280, 65407, 65408, 65534, 65535}

\* leading bytes of the program images: empty, HALT, RST 28h, LD BC,0x1234,
\* EI, DI
ImageHeads == {<<>>, <<118>>, <<239>>, <<1, 52, 18>>, <<251>>, <<243>>}

Images == {[len |-> n, head |-> h] : <<n, h>> \in {x \in ImageLens \X ImageHeads : Len(x[2]) <= x[1]}}

Opcodes == 0..255

\* operands of the ALU.  Bytes: 0x00 0x01 0x0F 0x10 0x80 0xF0 0xFF
AluBytes == {0, 1, 15, 16, 128, 240, 255}

\* words: 0x0000 0x0001 0x00FF 0x0F01 0x0FFF 0x8000 0xFFFF
AluWords == {0, 1, 255, 3841, 4095, 32768, 65535}


-----------------------------------------------------------------------------
(* The state machine *)

NoData == [len |-> 0, head |-> <<>>]

\* how a call ended: "ok" (it returned, a Result as Ok), "err" (it returned
\* Err(MBCError::ROMAccessOutOfRange)), "panic" (it did not return)
Outcome(f) == IF f = "none" THEN "ok" ELSE "panic"
MbcOutcome(ok) == IF ok THEN "ok" ELSE "err"

\* the operation performed last: its name, its arguments (-1, "", NoData where
\* it has none), how it ended and the value it returned (-1 if none)
\* (x, y, use_carry: the operands of a call of the ALU, -1 where it has none)
Call(op, reg, addr, value, data, result, ret) ==
    [op |-> op, reg |-> reg, addr |-> addr, value |-> value, data |-> data,
     result |-> result, ret |-> ret, x |-> -1, y |-> -1, use_carry |-> FALSE]

\* the Cpu of the current state
Cur ==
    [registers |-> registers, halted |-> halted,
     interrupt_master_enable |-> interrupt_master_enable, mmu |-> mmu, fault |-> fault]

\* the state becomes the Cpu c
Becomes(c) ==
    /\ registers' = c.registers
    /\ halted' = c.halted
    /\ interrupt_master_enable' = c.interrupt_master_enable
    /\ mmu' = c.mmu
    /\ fault' = c.fault

Running == fault = "none" /\ nops < MaxOps

Init ==
    /\ registers = Cpu_new.registers
    /\ halted = Cpu_new.halted
    /\ interrupt_master_enable = Cpu_new.interrupt_master_enable
    /\ mmu = Cpu_new.mmu
    /\ fault = Cpu_new.fault
    /\ last = Call("new", "", -1, -1, NoData, "ok", -1)
    /\ nops = 0
    /\ overflow_checks \in BOOLEAN

\* cpu.registers.set_r8(reg, value)
SetR8(reg, value) ==
    /\ Running
    /\ registers' = set_r8(registers, reg, value)
    /\ last' = Call("set_r8", reg, -1, value, NoData, "ok", -1)
    /\ nops' = nops + 1
    /\ UNCHANGED <<halted, interrupt_master_enable, mmu, fault, overflow_checks>>

\* cpu.registers.set_r16(reg, value)
SetR16(reg, value) ==
    /\ Running
    /\ registers' = set_r16(registers, reg, value)
    /\ last' = Call("set_r16", reg, -1, value, NoData, "ok", -1)
    /\ nops' = nops + 1
    /\ UNCHANGED <<halted, interrupt_master_enable, mmu, fault, overflow_checks>>

\* cpu.registers.set_flag(flag, value)
SetFlag(flag, value) ==
    /\ Running
    /\ registers' = set_flag(registers, flag, value)
    /\ last' = Call("set_flag", flag, -1, IF value THEN 1 ELSE 0, NoData, "ok", -1)
    /\ nops' = nops + 1
    /\ UNCHANGED <<halted, interrupt_master_enable, mmu, fault, overflow_checks>>

\* mmu.read_byte(address)
ReadByte(address) ==
    /\ Running
    /\ LET rd == Mmu_read_byte(mmu, address) IN
       /\ fault' = rd.fault
       /\ last' = Call("read_byte", "", address, -1, NoData, Outcome(rd.fault),
                       IF rd.fault = "none" THEN rd.val ELSE -1)
    /\ nops' = nops + 1
    /\ UNCHANGED <<registers, halted, interrupt_master_enable, mmu, overflow_checks>>

\* mmu.read_word(address)
ReadWord(address) ==
    /\ Running
    /\ LET rd == Mmu_read_word(mmu, address) IN
       /\ fault' = rd.fault
       /\ last' = Call("read_word", "", address, -1, NoData, Outcome(rd.fault),
                       IF rd.fault = "none" THEN rd.val ELSE -1)
    /\ nops' = nops + 1
    /\ UNCHANGED <<registers, halted, interrupt_master_enable, mmu, overflow_checks>>

\* mmu.write_byte(address, value): returns () unless it panics
WriteByte(address, value) ==
    /\ Running
    /\ LET w == Mmu_write_byte(mmu, address, value) IN
       /\ mmu' = w.mmu
       /\ fault' = w.fault
       /\ last' = Call("write_byte", "", address, value, NoData, Outcome(w.fault), -1)
    /\ nops' = nops + 1
    /\ UNCHANGED <<registers, halted, interrupt_master_enable, overflow_checks>>

\* mmu.write_word(address, value)
WriteWord(address, value) ==
    /\ Running
    /\ LET w == Mmu_write_word(mmu, address, value) IN
       /\ mmu' = w.mmu
       /\ fault' = w.fault
       /\ last' = Call("write_word", "", address, value, NoData, Outcome(w.fault), -1)
    /\ nops' = nops + 1
    /\ UNCHANGED <<registers, halted, interrupt_master_enable, overflow_checks>>

\* mmu.load_rom(data)
LoadRom(data) ==
    /\ Running
    /\ LET w == Mmu_load_rom(mmu, data) IN
       /\ mmu' = w.mmu
       /\ fault' = w.fault
       /\ last' = Call("load_rom", "", -1, -1, data, Outcome(w.fault), -1)
    /\ nops' = nops + 1
    /\ UNCHANGED <<registers, halted, interrupt_master_enable, overflow_checks>>

\* mmu.mbc.read_byte(address): Ok(byte) or Err(ROMAccessOutOfRange)
MbcReadByte(address) ==
    /\ Running
    /\ LET rd == MbcNone_read_byte(mmu.mbc, address) IN
       last' = Call("mbc_read_byte", "", address, -1, NoData, MbcOutcome(rd.ok),
                    IF rd.ok THEN rd.val ELSE -1)
    /\ nops' = nops + 1
    /\ UNCHANGED <<registers, halted, interrupt_master_enable, mmu, fault, overflow_checks>>

\* mmu.mbc.write_byte(address, value): Ok(()) or Err(ROMAccessOutOfRange)
MbcWriteByte(address, value) ==
    /\ Running
    /\ LET w == MbcNone_write_byte(mmu.mbc, address, value) IN
       /\ mmu' = [mmu EXCEPT !.mbc = w.mbc]
       /\ last' = Call("mbc_write_byte", "", address, value, NoData, MbcOutcome(w.ok), -1)
    /\ nops' = nops + 1
    /\ UNCHANGED <<registers, halted, interrupt_master_enable, fault, overflow_checks>>

\* the handler returned x = [c, ret]: the state becomes x.c
Returned(x, op, addr, value) ==
    /\ Becomes(x.c)
    /\ last' = Call(op, "", addr, value, NoData, Outcome(x.c.fault), x.ret)

\* cpu.execute_instr(instruction)
ExecuteInstr(instruction) ==
    /\ Running
    /\ Returned(execute_instr(Cur, instruction), "execute_instr", -1, instruction)
    /\ nops' = nops + 1
    /\ UNCHANGED overflow_checks

\* the opcode a bus read rd = [fault, val] delivered, -1 if it panicked
OpcodeOf(rd) == IF rd.fault = "none" THEN rd.val ELSE -1

\* cpu.fetch_and_execute(), the step of the CPU
FetchAndExecute ==
    /\ Running
    /\ Returned(fetch_and_execute(Cur), "fetch_and_execute", registers.pc,
                OpcodeOf(Mmu_read_byte(mmu, registers.pc)))
    /\ nops' = nops + 1
    /\ UNCHANGED overflow_checks

\* the Cpu as its tests drive it
Next ==
    \/ \E reg \in Register8b, value \in ByteVals : SetR8(reg, value)
    \/ \E reg \in Register16b, value \in WordVals : SetR16(reg, value)
    \/ \E flag \in Flag, value \in BOOLEAN : SetFlag(flag, value)
    \/ \E address \in BusAddrs, value \in ByteVals : WriteByte(address, value)
    \/ \E data \in Images : LoadRom(data)
    \/ \E instruction \in Opcodes : ExecuteInstr(instruction)
    \/ FetchAndExecute

Spec == Init /\ [][Next]_vars

\* a call op(x, y, use_carry) of the ALU (-1 for an operand it does not take)
\* returned res = [r, val]: r becomes the register file, val is returned
AluReturned(res, op, x, y, use_carry) ==
    /\ registers' = res.r
    /\ last' = [Call(op, "", -1, -1, NoData, "ok", res.val)
                   EXCEPT !.x = x, !.y = y, !.use_carry = use_carry]
    /\ nops' = nops + 1
    /\ UNCHANGED <<halted, interrupt_master_enable, mmu, fault, overflow_checks>>

\* cpu.alu_add_bytes(x, y, use_carry)
AluAddBytes(x, y, use_carry) ==
    /\ Running
    /\ AluReturned(alu_add_bytes(registers, x, y, use_carry), "alu_add_bytes", x, y, use_carry)

\* cpu.alu_sub_bytes(x, y, use_carry)
AluSubBytes(x, y, use_carry) ==
    /\ Running
    /\ AluReturned(alu_sub_bytes(registers, x, y, use_carry), "alu_sub_bytes", x, y, use_carry)

\* cpu.alu_add_words(x, y)
AluAddWords(x, y) ==
    /\ Running
    /\ AluReturned(alu_add_words(registers, x, y), "alu_add_words", x, y, FALSE)

\* cpu.alu_inc_byte(x)
AluIncByte(x) ==
    /\ Running
    /\ AluReturned(alu_inc_byte(registers, x), "alu_inc_byte", x, -1, FALSE)

\* cpu.alu_dec_byte(x)
AluDecByte(x) ==
    /\ Running
    /\ AluReturned(alu_dec_byte(registers, x), "alu_dec_byte", x, -1, FALSE)

\* cpu.alu_and_a(y)
AluAndA(y) ==
    /\ Running
    /\ AluReturned([r |-> alu_and_a(registers, y), val |-> -1], "alu_and_a", -1, y, FALSE)

\* cpu.alu_xor_a(y)
AluXorA(y) ==
    /\ Running
    /\ AluReturned([r |-> alu_xor_a(registers, y), val |-> -1], "alu_xor_a", -1, y, FALSE)

\* cpu.alu_or_a(y)
AluOrA(y) ==
    /\ Running
    /\ AluReturned([r |-> alu_or_a(registers, y), val |-> -1], "alu_or_a", -1, y, FALSE)

\* cpu.alu_cp_a(y)
AluCpA(y) ==
    /\ Running
    /\ AluReturned([r |-> alu_cp_a(registers, y), val |-> -1], "alu_cp_a", -1, y, FALSE)

\* cpu.bit_op_rlc(x)
BitOpRlc(x) ==
    /\ Running
    /\ AluReturned(bit_op_rlc(registers, x), "bit_op_rlc", x, -1, FALSE)

\* cpu.bit_op_rrc(x)
BitOpRrc(x) ==
    /\ Running
    /\ AluReturned(bit_op_rrc(registers, x), "bit_op_rrc", x, -1, FALSE)

\* the ALU alone, from every combination of the flags Z N H C the register
\* file can hold (F = 0x00, 0x10, .. 0xF0), and from A and F set together
\* (F = 0x00, 0x10, 0xF0)
NextAlu ==
    \/ \E k \in 0..15 : SetR8("f", 16 * k)
    \/ \E x \in AluBytes, y \in AluBytes, use_carry \in BOOLEAN : AluAddBytes(x, y, use_carry)
    \/ \E x \in AluBytes, y \in AluBytes, use_carry \in BOOLEAN : AluSubBytes(x, y, use_carry)
    \/ \E x \in AluWords, y \in AluWords : AluAddWords(x, y)
    \/ \E x \in AluBytes : AluIncByte(x)
    \/ \E x \in AluBytes : AluDecByte(x)
    \/ \E value \in AluWords : SetR16("HL", value)
    \/ \E rr \in 0..3 : ExecuteInstr(9 + 16 * rr)
    \/ \E y \in AluBytes : SetR8("b", y)
    \/ \E instruction \in 184..191 : ExecuteInstr(instruction)
    \/ \E a \in AluBytes, f \in {0, 16, 240} : SetR16("AF", 256 * a + f)
    \/ \E y \in AluBytes : AluAndA(y)
    \/ \E y \in AluBytes : AluXorA(y)
    \/ \E y \in AluBytes : AluOrA(y)
    \/ \E y \in AluBytes : AluCpA(y)
    \/ \E x \in AluBytes : BitOpRlc(x)
    \/ \E x \in AluBytes : BitOpRrc(x)

SpecAlu == Init /\ [][NextAlu]_vars

\* The step of the CPU on a loaded program.  The Cpu starts after
\* load_rom of a three-byte image <<b0, b1, b2>> (b0 any opcode; b1, b2 an
\* immediate operand, or the opcode the second step executes) and after
\* set_r16 of every pair: A = 0x01 / 0xFF, F = 0x00 / 0x10 / 0xF0,
\* BC = 0x0123, DE = 0x4567, HL in ROM (0x0001) or at the first and the last
\* byte of working RAM (0xC000, 0xDFFF), SP = 0xC002 / 0xE000, PC = 0.
InitStep ==
    /\ \E b0 \in Opcodes,
          t \in {<<52, 18>>, <<193, 0>>, <<209, 0>>, <<225, 0>>, <<241, 0>>,
                 <<255, 15>>, <<6, 18>>, <<1, 52>>} :
          LET data == [len |-> 3, head |-> <<b0, t[1], t[2]>>] IN
          /\ mmu = Mmu_load_rom(Cpu_new.mmu, data).mmu
          /\ last = Call("load_rom", "", -1, -1, data, "ok", -1)
    /\ \E a \in {1, 255}, f \in {0, 16, 240}, hl \in {1, 49152, 57343},
          sp \in {49154, 57344} :
          registers =
              set_r16(set_r16(set_r16(set_r16(set_r16(Cpu_new.registers,
                  "AF", 256 * a + f), "BC", 291), "DE", 17767), "HL", hl), "SP", sp)
    /\ halted = Cpu_new.halted
    /\ interrupt_master_enable = Cpu_new.interrupt_master_enable
    /\ fault = Cpu_new.fault
    /\ nops = 0
    /\ overflow_checks \in BOOLEAN

SpecStep == InitStep /\ [][FetchAndExecute]_vars

\* the bus and its bank controller alone
NextMmu ==
    \/ \E address \in BusAddrs : ReadByte(address)
    \/ \E address \in BusAddrs : ReadWord(address)
    \/ \E address \in BusAddrs, value \in ByteVals : WriteByte(address, value)
    \/ \E address \in BusAddrs, value \in WordVals : WriteWord(address, value)
    \/ \E data \in Images : LoadRom(data)
    \/ \E address \in BusAddrs : MbcReadByte(address)
    \/ \E address \in BusAddrs, value \in ByteVals : MbcWriteByte(address, value)

SpecMmu == Init /\ [][NextMmu]_vars

-----------------------------------------------------------------------------
(* Properties.  They are stated on the operation performed last (`last`), on *)
(* the state it left, and on what a read of that state returns.              *)

\* address ranges of the memory map
RomRange == 0..32767
WramRange == 49152..57343
EchoRange == 57344..65023
UnusableRange == 65184..65279

\* C1: In every reachable state the low nibble of F is zero (F & 0x0F = 0),
\* and a write of F through set_r8(F, v) stores v with bits 0-3 masked to 0.
C1_FLowNibbleZero ==
    /\ BitAnd(registers.f, 15) = 0
    /\ (last.op = "set_r8" /\ last.reg = "f") => registers.f = BitAnd(last.value, 240)

\* C2: Executing an opcode that has no implemented handler (the default arm,
\* the arms that reach unimpl_instr, the 0xCB prefix, the empty arm of 0xEF)
\* ends in a panic and returns no cycle count, whether it is executed directly
\* or fetched by the step; outside the prefixed table the panic is the
\* 'unimplemented instruction' one.  No such opcode returns normally.
C2_UnhandledOpcodeIsFatal ==
    (last.op \in {"execute_instr", "fetch_and_execute"} /\ last.value \in NoHandlerOpcodes)
        => /\ last.result = "panic"
           /\ last.ret = -1
           /\ last.value \notin PrefixArm => fault = UnimplementedFault

\* C3: A read or write issued through the bus at an address its bank
\* controller rejects (ROMAccessOutOfRange) ends as an error returned to the
\* caller: it neither returns success nor panics.
C3_BusSurfacesMbcError ==
    (/\ last.op \in {"read_byte", "write_byte"}
     /\ last.addr \in RomRange
     /\ ~MbcNone_read_byte(mmu.mbc, last.addr).ok)
        => last.result = "err"

\* C4: MbcNone is a flat 32 KiB ROM.  A write at an address in 0x0000..=0x7FFF
\* returns Ok and a following read there returns Ok of the byte written; a
\* read there returns Ok; a read or write at an address >= 0x8000 returns
\* Err(ROMAccessOutOfRange) and leaves the ROM as it was.  So Err is returned
\* exactly for the addresses >= 0x8000.
C4_MbcNoneFlat32K ==
    [][ /\ (last'.op = "mbc_write_byte" /\ last'.addr \in RomRange) =>
              /\ last'.result = "ok"
              /\ MbcNone_read_byte(mmu'.mbc, last'.addr) = [ok |-> TRUE, val |-> last'.value]
        /\ (last'.op = "mbc_read_byte" /\ last'.addr \in RomRange) => last'.result = "ok"
        /\ (last'.op \in {"mbc_read_byte", "mbc_write_byte"} /\ last'.addr >= 32768) =>
              /\ last'.result = "err"
              /\ mmu'.mbc = mmu.mbc
      ]_vars

\* the indices of an image of n bytes at which C5 reads the ROM back
ReadBackAt(n) == {i \in {0, 1, 2, 32765, 32766, 32767} : i < n}

\* C5: load_rom of an image of n <= 0x8000 bytes succeeds, and afterwards
\* read_byte(i) returns data[i] for the indices i < n; load_rom of an image of
\* n > 0x8000 bytes fails, and no byte of an image longer than the address
\* space lands on the wrapped address (index mod 2^16).
C5_LoadRomContract ==
    last.op = "load_rom" =>
        /\ last.data.len <= 32768 =>
              /\ last.result = "ok"
              /\ \A i \in ReadBackAt(last.data.len) :
                    Mmu_read_byte(mmu, i) = [fault |-> "none", val |-> DataAt(last.data, i)]
        /\ last.data.len > 32768 => last.result # "ok"
        /\ last.data.len > 65536 =>
              \A a \in 0..(Len(last.data.head) - 1) :
                    ArrGet(mmu.mbc.rom, a) = DataAt(last.data, a)

\* C6: A write of a byte at any working-RAM address 0xC000..=0xDFFF completes
\* without failure, a following read there returns the byte, and every other
\* cell of working RAM is as it was.
C6_WramWriteRead ==
    [][ (last'.op = "write_byte" /\ last'.addr \in WramRange) =>
            /\ last'.result = "ok"
            /\ Mmu_read_byte(mmu', last'.addr) = [fault |-> "none", val |-> last'.value]
            /\ \A i \in (DOMAIN mmu.wram \cup DOMAIN mmu'.wram) \ {last'.addr - 49152} :
                  ArrGet(mmu'.wram, i) = ArrGet(mmu.wram, i)
      ]_vars

\* C7: Where addr and addr + 1 both lie in working RAM, write_word(addr, w)
\* completes, a following read_word(addr) returns w, read_byte(addr) returns
\* the low byte of w and read_byte(addr + 1) its high byte.
C7_WordLittleEndianRoundTrip ==
    (last.op = "write_word" /\ last.addr \in WramRange /\ last.addr + 1 \in WramRange) =>
        /\ last.result = "ok"
        /\ Mmu_read_word(mmu, last.addr) = [fault |-> "none", val |-> last.value]
        /\ Mmu_read_byte(mmu, last.addr) = [fault |-> "none", val |-> last.value % 256]
        /\ Mmu_read_byte(mmu, last.addr + 1) = [fault |-> "none", val |-> last.value \div 256]

\* C8: Echo RAM mirrors working RAM.  A read at e in 0xE000..=0xFDFF returns
\* the byte a read at e - 0x2000 returns; a write of v at e completes, and
\* afterwards the reads at e and at e - 0x2000 both return v.
C8_EchoMirrorsWram ==
    /\ (last.op = "read_byte" /\ last.addr \in EchoRange) =>
          /\ last.result = "ok"
          /\ [fault |-> "none", val |-> last.ret] = Mmu_read_byte(mmu, last.addr - 8192)
    /\ (last.op = "write_byte" /\ last.addr \in EchoRange) =>
          /\ last.result = "ok"
          /\ Mmu_read_byte(mmu, last.addr) = [fault |-> "none", val |-> last.value]
          /\ Mmu_read_byte(mmu, last.addr - 8192) = [fault |-> "none", val |-> last.value]

\* C9: In the unusable region 0xFEA0..=0xFEFF a read returns 0, and a write
\* completes normally and leaves the whole bus (ROM, working RAM, I/O store,
\* interrupt-enable flag) as it was.
C9_UnusableRegionNoOp ==
    [][ /\ (last'.op = "read_byte" /\ last'.addr \in UnusableRange) =>
              (last'.result = "ok" /\ last'.ret = 0)
        /\ (last'.op = "write_byte" /\ last'.addr \in UnusableRange) =>
              (last'.result = "ok" /\ mmu' = mmu)
      ]_vars

\* C10: The CPU starts with halted = FALSE; a step that fetches opcode 0x76
\* (HALT) returns normally and leaves halted = TRUE; and halted changes to
\* TRUE in no other step.
C10_HaltSetsHalted ==
    /\ ~halted
    /\ [][ /\ (last'.op = "fetch_and_execute" /\ last'.value = 118) =>
                 (last'.result = "ok" /\ halted')
           /\ (halted' /\ ~halted) =>
                 (last'.op \in {"fetch_and_execute", "execute_instr"} /\ last'.value = 118)
         ]_vars

\* C11: interrupt_master_enable is FALSE after Cpu::new; executing 0xFB (EI)
\* leaves it TRUE and executing 0xF3 (DI) leaves it FALSE, each returning 4
\* and changing no register other than PC (which moves only by the fetch of
\* the opcode), no flag, no memory; executing any other opcode leaves
\* interrupt_master_enable as it was.
C11_ImeSetByEiDi ==
    /\ ~interrupt_master_enable
    /\ [][ LET executed == last'.op \in {"execute_instr", "fetch_and_execute"}
               fetched  == IF last'.op = "fetch_and_execute" THEN 1 ELSE 0
           IN  /\ (executed /\ last'.value \in {243, 251}) =>
                     /\ last'.result = "ok"
                     /\ last'.ret = 4
                     /\ interrupt_master_enable' = (last'.value = 251)
                     /\ registers' = [registers EXCEPT !.pc = (@ + fetched) % 65536]
                     /\ mmu' = mmu
                     /\ halted' = halted
               /\ (executed /\ last'.value \notin {243, 251}) =>
                     interrupt_master_enable' = interrupt_master_enable
         ]_vars

\* C11, its case: a step fetched EI from ROM and set the flag
C11_EiStepped ==
    /\ last.op = "fetch_and_execute"
    /\ last.value = 251
    /\ last.ret = 4
    /\ interrupt_master_enable
    /\ registers.pc = 1

\* C12: alu_add_bytes(x, y, use_carry), with c = 1 iff use_carry and the
\* incoming C flag, returns (x + y + c) mod 256 without panicking; afterwards
\* N is false, Z is true iff the returned byte is 0, and C is true iff
\* x + y + c > 0xFF.
C12_AddBytesValueZNC ==
    [][ last'.op = "alu_add_bytes" =>
          LET c   == IF last'.use_carry /\ flag_value(registers, "C") THEN 1 ELSE 0
              sum == last'.x + last'.y + c
          IN  /\ last'.result = "ok"
              /\ fault' = "none"
              /\ last'.ret = sum % 256
              /\ ~flag_value(registers', "N")
              /\ flag_value(registers', "Z") = (last'.ret = 0)
              /\ flag_value(registers', "C") = (sum > 255)
      ]_vars

\* C12, its case: 0xFF + 0xFF with the carry taken in returned 0xFF, C set
C12_AddWithCarryInDone ==
    /\ last.op = "alu_add_bytes"
    /\ last.use_carry
    /\ last.x = 255
    /\ last.y = 255
    /\ last.ret = 255
    /\ flag_value(registers, "C")
    /\ ~flag_value(registers, "Z")

\* C13: after alu_add_bytes(x, y, use_carry) the H flag equals
\* ((x ^ y ^ result) & 0x10) != 0 over the original operands x, y and the
\* widened sum result = x + y + c, c the effective carry-in; equivalently H is
\* true iff the lower 4 bits overflow, (x & 0x0F) + (y & 0x0F) + c > 0x0F.
C13_AddBytesHalfCarry ==
    [][ last'.op = "alu_add_bytes" =>
          LET c      == IF last'.use_carry /\ flag_value(registers, "C") THEN 1 ELSE 0
              result == last'.x + last'.y + c
          IN  /\ flag_value(registers', "H")
                   = (BitAnd(BitXor(BitXor(last'.x, last'.y), result), 16) # 0)
              /\ flag_value(registers', "H")
                   = ((last'.x % 16) + (last'.y % 16) + c > 15)
      ]_vars

\* C14: alu_sub_bytes(x, y, use_carry), with c = 1 iff use_carry and the
\* incoming C flag, returns (x - y - c) mod 256 without panicking; afterwards
\* N is true, Z is true iff the returned byte is 0, and C is true iff a borrow
\* occurred, x < y + c.
C14_SubBytesValueZNC ==
    [][ last'.op = "alu_sub_bytes" =>
          LET c == IF last'.use_carry /\ flag_value(registers, "C") THEN 1 ELSE 0
          IN  /\ last'.result = "ok"
              /\ fault' = "none"
              /\ last'.ret = (last'.x - last'.y - c) % 256
              /\ flag_value(registers', "N")
              /\ flag_value(registers', "Z") = (last'.ret = 0)
              /\ flag_value(registers', "C") = (last'.x < last'.y + c)
      ]_vars

\* C14, its case: 0x0F - 0x0F with the carry taken in returned 0xFF, borrowing
C14_SubWithCarryInDone ==
    /\ last.op = "alu_sub_bytes"
    /\ last.use_carry
    /\ last.x = 15
    /\ last.y = 15
    /\ last.ret = 255
    /\ flag_value(registers, "C")
    /\ flag_value(registers, "N")

\* C15: after alu_sub_bytes(x, y, use_carry) the H flag is set iff the
\* subtraction borrows from bit 4, (x & 0x0F) < (y & 0x0F) + c, c the
\* effective carry-in.
C15_SubBytesHalfBorrow ==
    [][ last'.op = "alu_sub_bytes" =>
          LET c == IF last'.use_carry /\ flag_value(registers, "C") THEN 1 ELSE 0
          IN  flag_value(registers', "H") = ((last'.x % 16) < (last'.y % 16) + c)
      ]_vars

\* C16: byte add and subtract are inverse: for all bytes x, y and any flag
\* state, alu_sub_bytes(alu_add_bytes(x, y, false), y, false) = x, whatever
\* flags the addition left behind.  Stated of the subtraction applied to the
\* registers the addition left, and of a subtraction call that follows it.
C16_SubUndoesAdd ==
    [][ /\ (last'.op = "alu_add_bytes" /\ ~last'.use_carry) =>
              alu_sub_bytes(registers', last'.ret, last'.y, FALSE).val = last'.x
        /\ ( /\ last.op = "alu_add_bytes" /\ ~last.use_carry
             /\ last'.op = "alu_sub_bytes" /\ ~last'.use_carry
             /\ last'.x = last.ret /\ last'.y = last.y ) =>
              last'.ret = last.x
      ]_vars

\* C16, its case: 0xFF + 0x01 wrapped to 0 and left C set; subtracting 0x01
\* from the registers it left gives 0xFF back
C16_AddWrappedThenUndone ==
    /\ last.op = "alu_add_bytes"
    /\ ~last.use_carry
    /\ last.x = 255
    /\ last.y = 1
    /\ last.ret = 0
    /\ flag_value(registers, "C")
    /\ alu_sub_bytes(registers, last.ret, last.y, FALSE).val = 255

\* C17: alu_add_words(x, y) leaves the Z flag exactly as it was before the
\* call, for both prior values of Z; so every ADD HL,r16 instruction
\* (0x09, 0x19, 0x29, 0x39) returns leaving Z unchanged.
C17_AddWordsKeepsZ ==
    [][ /\ last'.op = "alu_add_words" =>
              flag_value(registers', "Z") = flag_value(registers, "Z")
        /\ (last'.op = "execute_instr" /\ last'.value \in {9, 25, 41, 57}) =>
              /\ last'.result = "ok"
              /\ flag_value(registers', "Z") = flag_value(registers, "Z")
      ]_vars

\* C17, its case: Z was set, 0x00FF + 0x0001 = 0x0100 is not zero, Z is still set
C17_ZSetSurvivesAddWords ==
    /\ last.op = "alu_add_words"
    /\ last.x = 255
    /\ last.y = 1
    /\ last.ret = 256
    /\ flag_value(registers, "Z")

\* C18: alu_add_words(x, y) returns (x + y) mod 65536 from any incoming flag
\* state (the incoming C flag does not enter the low-byte addition);
\* afterwards N is false and C is true iff x + y > 0xFFFF.
C18_AddWordsValueNC ==
    [][ last'.op = "alu_add_words" =>
          /\ last'.result = "ok"
          /\ last'.ret = (last'.x + last'.y) % 65536
          /\ ~flag_value(registers', "N")
          /\ flag_value(registers', "C") = (last'.x + last'.y > 65535)
      ]_vars

\* C18, its case: 0xFFFF + 0x0001 wrapped to 0 through both bytes, C set
C18_AddWordsWrapped ==
    /\ last.op = "alu_add_words"
    /\ last.x = 65535
    /\ last.y = 1
    /\ last.ret = 0
    /\ flag_value(registers, "C")
    /\ ~flag_value(registers, "N")

\* C19: after alu_add_words(x, y) the H flag is set iff bit 11 overflows,
\* (x & 0x0FFF) + (y & 0x0FFF) > 0x0FFF.
C19_AddWordsHalfCarry ==
    [][ last'.op = "alu_add_words" =>
          flag_value(registers', "H") = ((last'.x % 4096) + (last'.y % 4096) > 4095)
      ]_vars

\* C20: alu_inc_byte(x) returns (x + 1) mod 256 with Z iff the result is 0,
\* N false, H iff (x & 0x0F) = 0x0F; alu_dec_byte(x) returns (x - 1) mod 256
\* with Z iff the result is 0, N true, H iff (x & 0x0F) = 0; neither changes
\* the C flag and neither panics, at 0xFF and 0x00 included.
C20_IncDecByte ==
    [][ /\ last'.op = "alu_inc_byte" =>
              /\ last'.result = "ok"
              /\ fault' = "none"
              /\ last'.ret = (last'.x + 1) % 256
              /\ flag_value(registers', "Z") = (last'.ret = 0)
              /\ ~flag_value(registers', "N")
              /\ flag_value(registers', "H") = (last'.x % 16 = 15)
              /\ flag_value(registers', "C") = flag_value(registers, "C")
        /\ last'.op = "alu_dec_byte" =>
              /\ last'.result = "ok"
              /\ fault' = "none"
              /\ last'.ret = (last'.x - 1) % 256
              /\ flag_value(registers', "Z") = (last'.ret = 0)
              /\ flag_value(registers', "N")
              /\ flag_value(registers', "H") = (last'.x % 16 = 0)
              /\ flag_value(registers', "C") = flag_value(registers, "C")
      ]_vars

\* C20, its case: 0x00 was decremented to 0xFF with H and N set, C still set
C20_DecWrappedCKept ==
    /\ last.op = "alu_dec_byte"
    /\ last.x = 0
    /\ last.ret = 255
    /\ flag_value(registers, "H")
    /\ flag_value(registers, "N")
    /\ flag_value(registers, "C")

C22_CompareIsSubWithoutStore ==
    [][ /\ last'.op = "alu_cp_a" =>
              /\ last'.result = "ok"
              /\ registers' = [registers EXCEPT
                     !.f = alu_sub_bytes(registers, registers.a, last'.y, FALSE).r.f]
              /\ flag_value(registers', "Z") = (registers.a = last'.y)
              /\ flag_value(registers', "C") = (registers.a < last'.y)
        /\ (last'.op = "execute_instr" /\ last'.value \in 184..191) =>
              LET r == IF last'.value = 190
                       THEN Mmu_read_byte(mmu, get_r16(registers, "HL")).val
                       ELSE get_r8(registers, R8Of(last'.value % 8))
              IN  /\ last'.value # 190 => last'.result = "ok"
                  /\ last'.result = "ok" =>
                        /\ registers' = [registers EXCEPT !.f = registers'.f]
                        /\ flag_value(registers', "Z") = (registers.a = r)
                        /\ flag_value(registers', "C") = (registers.a < r)
      ]_vars

\* C22, its case: A = 0x0F was compared with 0x10: A is kept, C and N are set
C22_CompareBorrowed ==
    /\ last.op = "alu_cp_a"
    /\ last.y = 16
    /\ registers.a = 15
    /\ flag_value(registers, "C")
    /\ flag_value(registers, "N")
    /\ ~flag_value(registers, "Z")

\* C23: immediate loads.  With the instruction in readable ROM, a step on
\* 0x01 / 0x11 / 0x21 / 0x31 (LD BC / DE / HL / SP, d16) sets the pair to the
\* little-endian word at PC+1..PC+2, advances PC by 3 and returns 12; a step
\* on 0x06 / 0x0E / 0x16 / 0x1E / 0x26 / 0x2E / 0x3E (LD B / C / D / E / H / L
\* / A, d8) sets the register to the byte at PC+1, advances PC by 2 and
\* returns 8; flags, all other registers and memory are unchanged.
C23_ImmediateLoads ==
    [][ (last'.op = "fetch_and_execute" /\ registers.pc + 2 < ROM_SIZE_MBC_NONE) =>
          LET pc    == registers.pc
              byte1 == ArrGet(mmu.mbc.rom, pc + 1)
              byte2 == ArrGet(mmu.mbc.rom, pc + 2)
          IN  /\ last'.value \in {1, 17, 33, 49} =>
                    /\ last'.result = "ok"
                    /\ last'.ret = 12
                    /\ registers' = set_r16([registers EXCEPT !.pc = pc + 3],
                                            R16Of(last'.value \div 16), byte1 + 256 * byte2)
                    /\ get_r16(registers', R16Of(last'.value \div 16)) = byte1 + 256 * byte2
                    /\ mmu' = mmu
              /\ last'.value \in {6, 14, 22, 30, 38, 46, 62} =>
                    /\ last'.result = "ok"
                    /\ last'.ret = 8
                    /\ registers' = [registers EXCEPT
                           ![R8Of(last'.value \div 8)] = byte1, !.pc = pc + 2]
                    /\ mmu' = mmu
      ]_vars

\* C23, its case: LD BC,d16 over the bytes 0x34 0x12 at PC 0 gave BC = 0x1234,
\* PC = 3, with the flags the Cpu started with
C23_LdBcD16Stepped ==
    /\ last.op = "fetch_and_execute"
    /\ last.value = 1
    /\ last.addr = 0
    /\ last.ret = 12
    /\ registers.b = 18
    /\ registers.c = 52
    /\ registers.pc = 3
    /\ registers.f = 240

\* C24: for each of the 49 LD r8,r8 opcodes (0x40-0x7F without 0x76 and the
\* (HL) forms) with destination d and source s in {B, C, D, E, H, L, A}: after
\* the step d holds the value s held before, PC has advanced by exactly 1, the
\* cost returned is 4, and F, SP, memory and every 8-bit register other than d
\* are unchanged.
C24_LdR8R8 ==
    [][ (last'.op = "fetch_and_execute" /\ last'.value \in 64..127) =>
          LET d == R8Of((last'.value - 64) \div 8)
              s == R8Of(last'.value % 8)
          IN  (d # "(hl)" /\ s # "(hl)") =>
                 /\ last'.result = "ok"
                 /\ last'.ret = 4
                 /\ registers'[d] = registers[s]
                 /\ registers'.pc = registers.pc + 1
                 /\ registers' = [registers EXCEPT ![d] = registers[s], !.pc = @ + 1]
                 /\ mmu' = mmu
      ]_vars

\* C24, its case: LD B,C copied 0x23 from C into B (B held 0x01)
C24_LdBCStepped ==
    /\ last.op = "fetch_and_execute"
    /\ last.value = 65
    /\ last.ret = 4
    /\ registers.b = 35
    /\ registers.c = 35
    /\ registers.pc = 1

\* C25: the cycle cost is a fixed function of the opcode, whatever the
\* registers and the memory hold: NOP (0x00) returns 4; every opcode in
\* 0x40-0x7F except 0x76 returns 4 when both operands are registers and 8 when
\* either operand is (HL); every opcode in 0x80-0xBF returns 4 for a register
\* operand and 8 for the (HL) operand; each of them advances PC by exactly 1.
C25_FixedCycleCost ==
    [][ (last'.op = "fetch_and_execute" /\ last'.value \in ({0} \cup (64..191)) \ {118}) =>
          LET d == IF last'.value \in 64..127 THEN R8Of((last'.value - 64) \div 8) ELSE "a"
              s == IF last'.value = 0 THEN "a" ELSE R8Of(last'.value % 8)
          IN  /\ last'.result = "ok"
              /\ last'.ret = IF d = "(hl)" \/ s = "(hl)" THEN 8 ELSE 4
              /\ registers'.pc = registers.pc + 1
      ]_vars

C27_PairsAreViews ==
    /\ \A r \in {registers} :
          /\ get_r16(r, "AF") = r.a * 256 + r.f
          /\ get_r16(r, "BC") = r.b * 256 + r.c
          /\ get_r16(r, "DE") = r.d * 256 + r.e
          /\ get_r16(r, "HL") = r.h * 256 + r.l
    /\ [][ /\ \A r \in {registers'} :
                 /\ get_r16(r, "AF") = r.a * 256 + r.f
                 /\ get_r16(r, "BC") = r.b * 256 + r.c
                 /\ get_r16(r, "DE") = r.d * 256 + r.e
                 /\ get_r16(r, "HL") = r.h * 256 + r.l
           /\ last'.op = "set_r16" =>
                 LET hi == last'.value \div 256
                     lo == last'.value % 256
                 IN  registers' =
                        CASE last'.reg = "AF" ->
                                [registers EXCEPT !.a = hi, !.f = lo - (lo % 16)]
                          [] last'.reg = "BC" -> [registers EXCEPT !.b = hi, !.c = lo]
                          [] last'.reg = "DE" -> [registers EXCEPT !.d = hi, !.e = lo]
                          [] last'.reg = "HL" -> [registers EXCEPT !.h = hi, !.l = lo]
                          [] last'.reg = "SP" -> [registers EXCEPT !.sp = last'.value]
                          [] last'.reg = "PC" -> [registers EXCEPT !.pc = last'.value]
           /\ last'.op = "set_r8" =>
                 /\ registers'.sp = registers.sp
                 /\ registers'.pc = registers.pc
         ]_vars

\* C27, its case: set_r16(AF, 0xFFFF) left A = 0xFF and F = 0xF0
C27_AfWrittenMasked ==
    /\ last.op = "set_r16"
    /\ last.reg = "AF"
    /\ last.value = 65535
    /\ get_r8(registers, "a") = 255
    /\ get_r8(registers, "f") = 240
    /\ get_r16(registers, "AF") = 65520

\* C28: stack push and pop are inverse for every pair rr in {BC, DE, HL, AF},
\* from every state in which SP-2 and SP-1 lie in working RAM: PUSH rr
\* (0xC5 / 0xD5 / 0xE5 / 0xF5) decrements SP by 2, stores the low byte of rr at
\* the new SP and the high byte at SP+1 and returns 16; the POP rr (0xC1 /
\* 0xD1 / 0xE1 / 0xF1) that follows returns 12 and leaves rr (A and the upper
\* nibble of F for AF), SP and every other register as they were before the
\* PUSH.  PUSH changes no register but SP and PC, so the POP has to leave the
\* registers it found, SP moved back by 2.
C28_PushPopInverse ==
    [][ last'.op = "fetch_and_execute" =>
          /\ ( /\ last'.value \in {197, 213, 229, 245}
               /\ registers.sp - 2 \in 49152..57343
               /\ registers.sp - 1 \in 49152..57343 ) =>
                  LET rr == <<"BC", "DE", "HL", "AF">>[(last'.value - 197) \div 16 + 1]
                      v  == get_r16(registers, rr)
                  IN  /\ last'.result = "ok"
                      /\ last'.ret = 16
                      /\ registers' = [registers EXCEPT !.sp = @ - 2, !.pc = @ + 1]
                      /\ ArrGet(mmu'.wram, registers.sp - 2 - 49152) = v % 256
                      /\ ArrGet(mmu'.wram, registers.sp - 1 - 49152) = v \div 256
          /\ ( /\ last.op = "fetch_and_execute"
               /\ last.value \in {197, 213, 229, 245}
               /\ last.result = "ok"
               /\ registers.sp \in 49152..57343
               /\ registers.sp + 1 \in 49152..57343
               /\ last'.value = last.value - 4 ) =>
                  /\ last'.result = "ok"
                  /\ last'.ret = 12
                  /\ registers' = [registers EXCEPT !.sp = @ + 2, !.pc = @ + 1]
      ]_vars

\* C29: the immediate-operand opcodes 0xC6 (ADD A,d8), 0xCE (ADC A,d8), 0xD6
\* (SUB A,d8) and 0xDE (SBC A,d8) leave A and F exactly as the register-operand
\* opcode (0x80, 0x88, 0x90, 0x98, with B holding the byte d8) leaves them from
\* the same A and F, the result of the ALU stored into A; PC advances by 2 and
\* the cost returned is 8.
C29_ImmediateArithmeticAsRegister ==
    [][ ( /\ last'.op = "fetch_and_execute"
          /\ last'.value \in {198, 206, 214, 222}
          /\ registers.pc + 1 < ROM_SIZE_MBC_NONE ) =>
          LET d8  == ArrGet(mmu.mbc.rom, registers.pc + 1)
              ref == execute_instr([Cur EXCEPT !.registers.b = d8], last'.value - 70).c.registers
          IN  /\ last'.result = "ok"
              /\ last'.ret = 8
              /\ registers'.pc = registers.pc + 2
              /\ registers'.f = ref.f
              /\ registers'.a = ref.a
      ]_vars

\* C30: the rotate helpers rotate one byte by one bit through the carry: with
\* c the C flag before the call, bit_op_rlc(x) returns ((x << 1) & 0xFF) | c
\* with C := bit 7 of x, and bit_op_rrc(x) returns (x >> 1) | (c << 7) with
\* C := bit 0 of x; in both cases Z reflects the rotated value and N = H =
\* false; so bit_op_rrc applied after bit_op_rlc restores x and the original C.
C30_RotateThroughCarry ==
    [][ LET c == IF flag_value(registers, "C") THEN 1 ELSE 0 IN
        /\ last'.op = "bit_op_rlc" =>
              /\ last'.ret = ((last'.x * 2) % 256) + c
              /\ flag_value(registers', "C") = (last'.x \div 128 = 1)
              /\ flag_value(registers', "Z") = (last'.ret = 0)
              /\ ~flag_value(registers', "N")
              /\ ~flag_value(registers', "H")
              /\ bit_op_rrc(registers', last'.ret).val = last'.x
              /\ flag_value(bit_op_rrc(registers', last'.ret).r, "C") = (c = 1)
        /\ last'.op = "bit_op_rrc" =>
              /\ last'.ret = (last'.x \div 2) + 128 * c
              /\ flag_value(registers', "C") = (last'.x % 2 = 1)
              /\ flag_value(registers', "Z") = (last'.ret = 0)
              /\ ~flag_value(registers', "N")
              /\ ~flag_value(registers', "H")
      ]_vars

====
